---- MODULE Spec2Model ----
(***************************************************************************)
(* Model of src/main.py: the tail-sum letter puzzle.                       *)
(*   Interpretation A: y_i = ((T_i + 6 - 1) % 26) + 1, T_i = sum(x[i:]).   *)
(*   Interpretation B: y_i = ((digit_sum(T_i) + 6 - 1) % 26) + 1.          *)
(* Words are sequences of one-letter strings; value sequences are          *)
(* sequences of integers.  Targets have length n >= 1, so every list a    *)
(* function returns for them is non-empty and the empty sequence stands    *)
(* for Python's None.                                                      *)
(***************************************************************************)
EXTENDS Integers, Sequences, FiniteSets, TLC

VARIABLES
    pc,             \* position in the run
    input,          \* the value sequence handed to the run
    values,         \* the word's values when the target is a forward image
    target_vals,    \* the target output values
    T,              \* reconstruct_interpretation_A: tail sums (0 = unset)
    x,              \* reconstruct_interpretation_A: letters (0 = unset)
    i,              \* reconstruct_interpretation_A: loop index (0-based)
    candidates,     \* reconstruct_interpretation_A: last candidate list
    x_vals_A,       \* result of reconstruct_interpretation_A, or None
    word_A,         \* to_word(x_vals_A), or None
    mapped_A,       \* map_to_word_interpretation_A(word_A), or None
    mapped_claimed, \* map_to_word_interpretation_A(claimed)
    last_candidates,\* reconstruct_interpretation_B_all: tails of last position
    next_last,      \* index (1-based) of the next element of last_candidates
    stack,          \* active backtrack calls, innermost first
    acc_letters,    \* the accumulator shared by the active backtrack calls
    sols            \* reconstruct_interpretation_B_all: recorded solutions

vars == <<pc, input, values, target_vals, T, x, i, candidates, x_vals_A,
          word_A, mapped_A, mapped_claimed, last_candidates, next_last,
          stack, acc_letters, sols>>

varsA == <<T, x, i, candidates, x_vals_A, word_A, mapped_A, mapped_claimed>>
varsB == <<last_candidates, next_last, stack, acc_letters, sols>>

\* Longest value sequence drawn as an input besides the two program words.
MaxLen == 2

None == <<>>

----------------------------------------------------------------------------
(* Alphabet codec *)

alphabet == <<"A","B","C","D","E","F","G","H","I","J","K","L","M",
              "N","O","P","Q","R","S","T","U","V","W","X","Y","Z">>

val(c) == CHOOSE k \in 1..Len(alphabet) : alphabet[k] = c

letter_shifted(v) == alphabet[(v % 26) + 1]

letter(v) == alphabet[v]

to_word(vs) == [k \in 1..Len(vs) |-> letter(vs[k])]

from_word(w) == [k \in 1..Len(w) |-> val(w[k])]

target == <<"B","U","L","L","S","H","I","T">>

claimed == <<"G","I","Z","S","K","Y","O","N">>

\* list(reversed(s))
Reversed(s) == [k \in 1..Len(s) |-> s[Len(s) + 1 - k]]

\* list(range(start, stop, step)) for step > 0: start, start + step, ...
\* as long as the element is below stop
Range(start, stop, step) ==
    IF start >= stop THEN <<>>
    ELSE [k \in 1..(((stop - start - 1) \div step) + 1) |->
             start + (k - 1) * step]

----------------------------------------------------------------------------
(* Forward transform, Interpretation A *)

RECURSIVE MapALoop_plus7(_, _, _, _)
MapALoop_plus7(vs, k, tail, out) ==
    IF k = 0 THEN out
    ELSE LET tail2 == tail + vs[k]
             y == ((tail2 + 6) % 26) + 1
         IN  MapALoop_plus7(vs, k - 1, tail2, Append(out, y))

\* the loop "for x in reversed(values)": k is the 1-based index of the
\* element read next, tail the running sum, out the list appended so far
RECURSIVE MapALoop(_, _, _, _)
MapALoop(vs, k, tail, out) ==
    IF k = 0 THEN out
    ELSE LET tail2 == tail + vs[k]
             y == ((tail2 + 6 - 1) % 26) + 1
         IN  MapALoop(vs, k - 1, tail2, Append(out, y))

map_interpretation_A_tail_plus6_mod26(vs) ==
    Reversed(MapALoop(vs, Len(vs), 0, <<>>))

map_to_word_interpretation_A(w) ==
    LET vs == from_word(w)
        outvals == map_interpretation_A_tail_plus6_mod26(vs)
    IN  to_word(outvals)

----------------------------------------------------------------------------
(* Forward transform, Interpretation B *)

\* sum(int(d) for d in str(n)), n >= 0: the decimal digits of n, added
RECURSIVE digit_sum(_)
digit_sum(n) ==
    IF n < 10 THEN n ELSE digit_sum(n \div 10) + (n % 10)

RECURSIVE MapBLoop(_, _, _, _)
MapBLoop(vs, k, tail, out) ==
    IF k = 0 THEN out
    ELSE LET tail2 == tail + vs[k]
             y == ((digit_sum(tail2) + 6 - 1) % 26) + 1
         IN  MapBLoop(vs, k - 1, tail2, Append(out, y))

map_interpretation_B(vs) ==
    Reversed(MapBLoop(vs, Len(vs), 0, <<>>))

----------------------------------------------------------------------------
(* Inputs *)

ValueSeqs(n) == [1..n -> 1..26]

\* every value sequence of length 1..MaxLen
ShortSeqs == UNION {ValueSeqs(n) : n \in 1..MaxLen}

\* the short sequences, the two words of the program, and a target of the
\* program's length that has a solution under Interpretation B
Inputs == ShortSeqs
            \cup {from_word(target), from_word(claimed),
                  map_interpretation_B(from_word(claimed))}

----------------------------------------------------------------------------
(* Initial state *)

Init ==
    /\ pc = "start"
    /\ input \in Inputs
    /\ values = <<>>
    /\ target_vals = <<>>
    /\ T = <<>>
    /\ x = <<>>
    /\ i = 0
    /\ candidates = <<>>
    /\ x_vals_A = None
    /\ word_A = None
    /\ mapped_A = None
    /\ mapped_claimed = None
    /\ last_candidates = <<>>
    /\ next_last = 1
    /\ stack = <<>>
    /\ acc_letters = <<>>
    /\ sols = <<>>

----------------------------------------------------------------------------
(* Interpretation A: reconstruct_interpretation_A, one step per loop turn *)

\* line 139 with the target the forward image of a word, so that line 142
\* is reconstruct(map(values))
A_FromWord ==
    /\ pc = "start"
    /\ values' = input
    /\ target_vals' = map_interpretation_A_tail_plus6_mod26(input)
    /\ pc' = "A_last"
    /\ UNCHANGED <<input, varsA, varsB>>

\* line 139 with the target given as such
A_FromTarget ==
    /\ pc = "start"
    /\ values' = <<>>
    /\ target_vals' = input
    /\ pc' = "A_last"
    /\ UNCHANGED <<input, varsA, varsB>>

\* lines 40 and 51: the residue class of the tail sum behind output value y
Residue_off(y) == (y - 5) % 26

Residue(y) == (y - 6) % 26

\* lines 33-45: allocate T and x, solve the last position
A_Last ==
    /\ pc = "A_last"
    /\ LET n == Len(target_vals)
           yn == target_vals[n]
           residue == Residue(yn)
           Tn == IF residue # 0 THEN residue ELSE 26
       IN  IF ~(1 <= Tn /\ Tn <= 26)
           THEN /\ x_vals_A' = None
                /\ pc' = "A_returned"
                /\ T' = [k \in 1..n |-> 0]
                /\ x' = [k \in 1..n |-> 0]
                /\ i' = i
           ELSE /\ T' = [k \in 1..n |-> IF k = n THEN Tn ELSE 0]
                /\ x' = [k \in 1..n |-> IF k = n THEN Tn ELSE 0]
                /\ i' = n - 2
                /\ pc' = "A_loop"
                /\ x_vals_A' = x_vals_A
    /\ UNCHANGED <<input, values, target_vals, candidates, word_A, mapped_A,
                   mapped_claimed, varsB>>

WindowCandidates_short(low, high, residue) ==
    LET r0 == IF residue = 0 THEN 26 ELSE residue
        start == low + ((r0 - low) % 26)
    IN  Range(start, high, 26)

\* lines 60-67: the candidate list of one position, from low, high, residue
WindowCandidates(low, high, residue) ==
    LET r0 == IF residue = 0 THEN 26 ELSE residue
        start == low + ((r0 - low) % 26)
    IN  Range(start, high + 1, 26)

\* lines 48-75: one turn of "for i in range(n-2, -1, -1)"; i is 0-based
A_Step ==
    /\ pc = "A_loop"
    /\ i >= 0
    /\ LET yi == target_vals[i + 1]
           residue == Residue(yi)
           low == T[i + 2] + 1
           high == T[i + 2] + 26
           cands == WindowCandidates(low, high, residue)
       IN  /\ candidates' = cands
           /\ IF Len(cands) # 1
              THEN /\ x_vals_A' = None
                   /\ pc' = "A_returned"
                   /\ UNCHANGED <<T, x, i>>
              ELSE LET Ti == cands[1]
                       xi == Ti - T[i + 2]
                   IN  /\ T' = [T EXCEPT ![i + 1] = Ti]
                       /\ IF ~(1 <= xi /\ xi <= 26)
                          THEN /\ x_vals_A' = None
                               /\ pc' = "A_returned"
                               /\ UNCHANGED <<x, i>>
                          ELSE /\ x' = [x EXCEPT ![i + 1] = xi]
                               /\ i' = i - 1
                               /\ pc' = "A_loop"
                               /\ x_vals_A' = x_vals_A
    /\ UNCHANGED <<input, values, target_vals, word_A, mapped_A,
                   mapped_claimed, varsB>>

\* line 77: return x
A_Return ==
    /\ pc = "A_loop"
    /\ i < 0
    /\ x_vals_A' = x
    /\ pc' = "A_returned"
    /\ UNCHANGED <<input, values, target_vals, T, x, i, candidates, word_A,
                   mapped_A, mapped_claimed, varsB>>

\* lines 143-144: the result as a word, and its forward image
A_Verify ==
    /\ pc = "A_returned"
    /\ word_A' = IF x_vals_A # None THEN to_word(x_vals_A) ELSE None
    /\ mapped_A' = IF word_A' # None
                   THEN map_to_word_interpretation_A(word_A') ELSE None
    /\ pc' = "A_verified"
    /\ UNCHANGED <<input, values, target_vals, T, x, i, candidates, x_vals_A,
                   mapped_claimed, varsB>>

\* lines 166-167: the claimed example, forward-mapped
ClaimedCheck ==
    /\ pc = "B_done"
    /\ mapped_claimed' = map_to_word_interpretation_A(claimed)
    /\ pc' = "done"
    /\ UNCHANGED <<input, values, target_vals, T, x, i, candidates, x_vals_A,
                   word_A, mapped_A, varsB>>

\* reconstruct_interpretation_A as one function: the turns of the loop of
\* lines 48-75 from index i (0-based) down to 0, then line 77
RECURSIVE ReconstructALoop(_, _, _, _)
ReconstructALoop(tv, Ts, xs, k) ==
    IF k < 0 THEN xs
    ELSE LET cands == WindowCandidates(Ts[k + 2] + 1, Ts[k + 2] + 26,
                                       Residue(tv[k + 1]))
             Ti == cands[1]
             xi == Ti - Ts[k + 2]
         IN  IF Len(cands) # 1 THEN None
             ELSE IF ~(1 <= xi /\ xi <= 26) THEN None
             ELSE ReconstructALoop(tv, [Ts EXCEPT ![k + 1] = Ti],
                                   [xs EXCEPT ![k + 1] = xi], k - 1)

reconstruct_interpretation_A(tv) ==
    LET n == Len(tv)
        residue == Residue(tv[n])
        Tn == IF residue # 0 THEN residue ELSE 26
        first == [k \in 1..n |-> IF k = n THEN Tn ELSE 0]
    IN  IF ~(1 <= Tn /\ Tn <= 26) THEN None
        ELSE ReconstructALoop(tv, first, first, n - 2)


----------------------------------------------------------------------------
(* Interpretation B *)

MatchesB_linear(t, y) == ((t + 6 - 1) % 26) + 1 = y

\* the filter of lines 111 and 124: tail sum t gives output value y
MatchesB(t, y) == ((digit_sum(t) + 6 - 1) % 26) + 1 = y

\* [t for t in s if MatchesB(t, y)]
FilterB(s, y) == SelectSeq(s, LAMBDA t : MatchesB(t, y))

\* lines 110-111
LastCandidates(last_target) == FilterB(Range(1, 26 + 1, 1), last_target)

Window_short(T_next, from, y) ==
    LET low == T_next + 1
        high == T_next + 26
        inWindow == Range(IF from > low THEN from ELSE low, high, 1)
        matching == FilterB(inWindow, y)
    IN  SelectSeq(matching,
                  LAMBDA Ti : 1 <= Ti - T_next /\ Ti - T_next <= 26)

\* lines 119-126: the tail sums Ti of range(low, high+1), from `from` on,
\* that pass both tests of the loop body
Window(T_next, from, y) ==
    LET low == T_next + 1
        high == T_next + 26
        inWindow == Range(IF from > low THEN from ELSE low, high + 1, 1)
        matching == FilterB(inWindow, y)
    IN  SelectSeq(matching,
                  LAMBDA Ti : 1 <= Ti - T_next /\ Ti - T_next <= 26)

\* a call backtrack(i, T_next, acc_letters): `from` is the next Ti of the
\* loop, `entry` the accumulator as it was when the call was entered,
\* `at` is "loop" (in the for loop) or "call" (waiting at line 128)
Frame(fi, fT_next, from, entry, at) ==
    [i |-> fi, T_next |-> fT_next, from |-> from, entry |-> entry, at |-> at]

\* line 157 calls reconstruct_interpretation_B_all(target_vals); lines 105-111
B_Begin ==
    /\ pc = "A_verified"
    /\ sols' = <<>>
    /\ last_candidates' = LastCandidates(target_vals[Len(target_vals)])
    /\ next_last' = 1
    /\ pc' = "B_outer"
    /\ UNCHANGED <<input, values, target_vals, varsA, stack, acc_letters>>

\* lines 132-133: backtrack(n-2, Tn, [Tn]) for the next Tn
B_OuterCall ==
    /\ pc = "B_outer"
    /\ stack = <<>>
    /\ next_last <= Len(last_candidates)
    /\ LET Tn == last_candidates[next_last]
       IN  /\ acc_letters' = <<Tn>>
           /\ stack' = <<Frame(Len(target_vals) - 2, Tn, Tn + 1, <<Tn>>,
                               "loop")>>
    /\ next_last' = next_last + 1
    /\ pc' = "B_search"
    /\ UNCHANGED <<input, values, target_vals, varsA, last_candidates, sols>>

B_Record_unreversed ==
    /\ pc = "B_search"
    /\ stack # <<>>
    /\ Head(stack).at = "loop"
    /\ Head(stack).i < 0
    /\ sols' = Append(sols, acc_letters)
    /\ stack' = Tail(stack)
    /\ UNCHANGED <<pc, input, values, target_vals, varsA, last_candidates,
                   next_last, acc_letters>>

\* lines 116-118: a complete solution, recorded reversed; the call returns
B_Record ==
    /\ pc = "B_search"
    /\ stack # <<>>
    /\ Head(stack).at = "loop"
    /\ Head(stack).i < 0
    /\ sols' = Append(sols, Reversed(acc_letters))
    /\ stack' = Tail(stack)
    /\ UNCHANGED <<pc, input, values, target_vals, varsA, last_candidates,
                   next_last, acc_letters>>

\* lines 119-128: the for loop runs on to the next Ti that passes both
\* tests, appends x_i and calls backtrack(i-1, Ti, acc_letters); when no
\* such Ti is left the loop ends and the call returns
B_Loop ==
    /\ pc = "B_search"
    /\ stack # <<>>
    /\ Head(stack).at = "loop"
    /\ Head(stack).i >= 0
    /\ LET f == Head(stack)
           w == Window(f.T_next, f.from, target_vals[f.i + 1])
       IN  IF w = <<>>
           THEN /\ stack' = Tail(stack)
                /\ acc_letters' = acc_letters
           ELSE LET Ti == Head(w)
                    xi == Ti - f.T_next
                    acc2 == Append(acc_letters, xi)
                IN  /\ acc_letters' = acc2
                    /\ stack' = <<Frame(f.i - 1, Ti, Ti + 1, acc2, "loop"),
                                  [f EXCEPT !.from = Ti, !.at = "call"]>>
                                 \o Tail(stack)
    /\ UNCHANGED <<pc, input, values, target_vals, varsA, last_candidates,
                   next_last, sols>>

B_Pop_keep ==
    /\ pc = "B_search"
    /\ stack # <<>>
    /\ Head(stack).at = "call"
    /\ acc_letters' = acc_letters
    /\ stack' = <<[Head(stack) EXCEPT !.from = @ + 1, !.at = "loop"]>>
                    \o Tail(stack)
    /\ UNCHANGED <<pc, input, values, target_vals, varsA, last_candidates,
                   next_last, sols>>

\* line 129: the callee has returned; undo the append, go on with the loop
B_Pop ==
    /\ pc = "B_search"
    /\ stack # <<>>
    /\ Head(stack).at = "call"
    /\ acc_letters' = SubSeq(acc_letters, 1, Len(acc_letters) - 1)
    /\ stack' = <<[Head(stack) EXCEPT !.from = @ + 1, !.at = "loop"]>>
                    \o Tail(stack)
    /\ UNCHANGED <<pc, input, values, target_vals, varsA, last_candidates,
                   next_last, sols>>

\* back in the loop of line 132 after the outermost call returned
B_OuterReturn ==
    /\ pc = "B_search"
    /\ stack = <<>>
    /\ pc' = "B_outer"
    /\ acc_letters' = <<>>
    /\ UNCHANGED <<input, values, target_vals, varsA, last_candidates,
                   next_last, stack, sols>>

\* line 134: return sols
B_Return ==
    /\ pc = "B_outer"
    /\ next_last > Len(last_candidates)
    /\ pc' = "B_done"
    /\ UNCHANGED <<input, values, target_vals, varsA, varsB>>

\* reconstruct_interpretation_B_all as one function: backtrack gives the
\* solution list after the call, BacktrackOver runs the for loop over the
\* tail sums w that are left.  A call only ever appends to the list, so the
\* length tests always pass; they make the list a value before the loop
\* goes on
RECURSIVE backtrack(_, _, _, _, _), BacktrackOver(_, _, _, _, _, _)
backtrack(tv, k, T_next, acc, found) ==
    IF k < 0 THEN Append(found, Reversed(acc))
    ELSE BacktrackOver(tv, k, T_next, acc,
                       Window(T_next, T_next + 1, tv[k + 1]), found)

BacktrackOver(tv, k, T_next, acc, w, found) ==
    IF w = <<>> THEN found
    ELSE LET after == backtrack(tv, k - 1, Head(w),
                                Append(acc, Head(w) - T_next), found)
         IN  IF Len(after) >= Len(found)
             THEN BacktrackOver(tv, k, T_next, acc, Tail(w), after)
             ELSE found

RECURSIVE OuterLoopB(_, _, _)
OuterLoopB(tv, lc, found) ==
    IF lc = <<>> THEN found
    ELSE LET after == backtrack(tv, Len(tv) - 2, Head(lc), <<Head(lc)>>,
                                found)
         IN  IF Len(after) >= Len(found)
             THEN OuterLoopB(tv, Tail(lc), after)
             ELSE found

reconstruct_interpretation_B_all(tv) ==
    OuterLoopB(tv, LastCandidates(tv[Len(tv)]), <<>>)

\* the run of the script, lines 137-171, on the target drawn as input:
\* Interpretation A (line 142), its check (143-144), the Interpretation B
\* search (157), the claimed example (166-167)
Next ==
    \/ A_FromWord
    \/ A_FromTarget
    \/ A_Last
    \/ A_Step
    \/ A_Return
    \/ A_Verify
    \/ B_Begin
    \/ B_OuterCall
    \/ B_Record
    \/ B_Loop
    \/ B_Pop
    \/ B_OuterReturn
    \/ B_Return
    \/ ClaimedCheck

Spec == Init /\ [][Next]_vars

----------------------------------------------------------------------------
(* Brute-force references *)

\* all sequences of [1..26]^n whose forward image is y, by enumeration of
\* the 26^n sequences
BruteForceB(y) ==
    {s \in ValueSeqs(Len(y)) : map_interpretation_B(s) = y}

\* all sequences s of [1..26]^k whose forward image is the last k values of
\* y: each is a value put in front of such a sequence of length k-1 (the
\* forward image of a suffix is the suffix of the forward image)
RECURSIVE SuffixSolutionsB(_, _)
SuffixSolutionsB(y, k) ==
    IF k = 0 THEN {<<>>}
    ELSE LET shorter == SuffixSolutionsB(y, k - 1)
             want == SubSeq(y, Len(y) - k + 1, Len(y))
         IN  {c \in {<<v>> \o s : v \in 1..26, s \in shorter} :
                 map_interpretation_B(c) = want}

InRange(s) == \A k \in 1..Len(s) : s[k] \in 1..26

\* reconstruct_interpretation_A has just returned (line 142); no later step
\* of the run writes T, x, candidates or x_vals_A
AFinished == pc = "A_returned"

\* the stepwise runs end with the value of the function taken as a whole
StepwiseAgreesA ==
    AFinished => x_vals_A = reconstruct_interpretation_A(target_vals)

StepwiseAgreesB ==
    pc = "B_done" => sols = reconstruct_interpretation_B_all(target_vals)

----------------------------------------------------------------------------
(* Claims *)

\* C1: for every value sequence x over 1..26, reconstruct_interpretation_A
\* applied to map_interpretation_A_tail_plus6_mod26(x) returns exactly x,
\* never None and never another sequence.
RoundTripA ==
    (AFinished /\ values # <<>>) => x_vals_A = values

RoundTripA_Reached ==
    /\ pc = "A_returned"
    /\ values = <<26, 26>>
    /\ target_vals = map_interpretation_A_tail_plus6_mod26(values)
    /\ x_vals_A = <<26, 26>>

\* C2: whenever reconstruct_interpretation_A(y) returns a sequence r, every
\* value of r is in 1..26 and the forward transform of r is y, position by
\* position.
ReconstructionMapsBack ==
    (AFinished /\ x_vals_A # None) =>
        /\ Len(x_vals_A) = Len(target_vals)
        /\ InRange(x_vals_A)
        /\ \A k \in 1..Len(target_vals) :
              map_interpretation_A_tail_plus6_mod26(x_vals_A)[k]
                = target_vals[k]

ReconstructionMapsBack_Reached ==
    /\ pc = "A_returned"
    /\ values = <<>>
    /\ target_vals = <<6, 6>>
    /\ x_vals_A # None

\* C3: when reconstruct_interpretation_A(y) succeeds its result is the only
\* solution: every sequence over 1..26 whose forward image is y (each
\* sequence of the enumeration is run against its own image) is the result.
UniqueSolutionA ==
    (/\ AFinished
     /\ x_vals_A # None
     /\ values # <<>>
     /\ map_interpretation_A_tail_plus6_mod26(values) = target_vals)
        => \A k \in 1..Len(values) : values[k] = x_vals_A[k]

UniqueSolutionA_Reached ==
    /\ pc = "A_returned"
    /\ values = <<1, 26>>
    /\ x_vals_A # None
    /\ map_interpretation_A_tail_plus6_mod26(values) = target_vals

\* C4: every sequence in the list of reconstruct_interpretation_B_all(y)
\* has the length of y, values in 1..26, and forward image y.
SoundB ==
    pc = "B_done" =>
        \A k \in 1..Len(sols) :
            /\ Len(sols[k]) = Len(target_vals)
            /\ InRange(sols[k])
            /\ map_interpretation_B(sols[k]) = target_vals

SoundB_Reached ==
    /\ pc = "B_done"
    /\ Len(target_vals) = 2
    /\ Len(sols) >= 2

\* C5: every sequence of [1..26]^n whose forward image is y occurs exactly
\* once in the list of reconstruct_interpretation_B_all(y).  The sequences
\* are enumerated by suffix extension, which for n <= 2 is compared with the
\* enumeration of all 26^n sequences.
CompleteB ==
    pc = "B_done" =>
        LET n == Len(target_vals)
            all == SuffixSolutionsB(target_vals, n)
        IN  /\ \A s \in all :
                  Cardinality({k \in 1..Len(sols) : sols[k] = s}) = 1
            /\ n <= 2 => all = BruteForceB(target_vals)

CompleteB_Reached ==
    /\ pc = "B_done"
    /\ Len(target_vals) = 2
    /\ Cardinality(BruteForceB(target_vals)) >= 2
    /\ Len(sols) >= 2

\* C6: for the target BULLSHIT reconstruct_interpretation_A returns 8
\* values, each in 1..26, whose forward image is BULLSHIT again.
BullshitA ==
    (/\ pc = "A_verified"
     /\ values = <<>>
     /\ target_vals = from_word(target))
        => /\ x_vals_A # None
           /\ Len(x_vals_A) = 8
           /\ InRange(x_vals_A)
           /\ mapped_A = target

BullshitA_Reached ==
    /\ pc = "A_verified"
    /\ values = <<>>
    /\ target_vals = from_word(target)
    /\ mapped_A = target

\* C7: for the target BULLSHIT reconstruct_interpretation_B_all ends with a
\* list as long as the number of 8-value sequences over 1..26 whose forward
\* image is BULLSHIT.  The sequences are counted by suffix extension, which
\* loses none because the forward image of a sequence without its first
\* value is the forward image without its first value.
BullshitBCount ==
    /\ pc = "start" =>
          map_interpretation_B(Tail(input))
            = Tail(map_interpretation_B(input))
    /\ (pc = "B_done" /\ target_vals = from_word(target)) =>
          Len(sols) = Cardinality(SuffixSolutionsB(target_vals, 8))

BullshitBCount_Reached ==
    /\ pc = "B_done"
    /\ target_vals = from_word(target)
    /\ Len(sols) = 0
    /\ SuffixSolutionsB(target_vals, 8) = {}

\* the accumulator of the call at the top of the stack: as at call entry
\* while the call is in its loop or about to return, and as the caller left
\* it (entry plus the appended x_i) when a callee has just returned
AccAsAtEntry ==
    pc = "B_search" =>
        IF stack = <<>>
        THEN acc_letters = <<last_candidates[next_last - 1]>>
        ELSE LET f == Head(stack)
             IN  IF f.at = "loop"
                 THEN acc_letters = f.entry
                 ELSE acc_letters = Append(f.entry, f.from - f.T_next)

\* a step leaves every recorded solution in place and as it was
RecordedKept ==
    \A k \in 1..Len(sols) : Len(sols') >= k /\ sols'[k] = sols[k]

\* C8: a call backtrack(i, T_next, acc_letters) returns with acc_letters as
\* it was at call entry, on every exit path, and a recorded solution is
\* never changed afterwards.
AccumulatorDiscipline == []AccAsAtEntry /\ [][RecordedKept]_vars

AccumulatorDiscipline_Reached ==
    /\ pc = "B_search"
    /\ Len(stack) >= 2
    /\ Head(stack).at = "call"
    /\ Len(sols) >= 2
    /\ acc_letters = Append(Head(stack).entry,
                            Head(stack).from - Head(stack).T_next)

\* C9: at every position i from n-2 down to 0 the candidate list of
\* reconstruct_interpretation_A has exactly one element and x_i is in
\* 1..26, so the function never returns None for a target over 1..26.
OneCandidatePerPosition ==
    LET n == Len(target_vals)
    IN  (pc = "A_loop" \/ AFinished) =>
            /\ (n >= 2 /\ (AFinished \/ i < n - 2)) => Len(candidates) = 1
            /\ \A k \in (i + 2)..n :
                  /\ x[k] \in 1..26
                  /\ x[k] = T[k] - (IF k = n THEN 0 ELSE T[k + 1])
            /\ AFinished => x_vals_A # None

OneCandidatePerPosition_Reached ==
    /\ pc = "A_loop"
    /\ Len(target_vals) = 8
    /\ i = 2
    /\ Len(candidates) = 1
    /\ x[4] \in 1..26

\* C10: the claimed word GIZSKYON, passed through the Interpretation-A
\* forward transform, gives the target word BULLSHIT.
ClaimedMapsToTarget ==
    pc = "done" => mapped_claimed = target

ClaimedMapsToTarget_Reached ==
    /\ pc = "done"
    /\ mapped_claimed = target
    /\ input = from_word(claimed)

====
